---- MODULE Spec2Model ----
(***************************************************************************)
(* Staged installer of psbody-mesh: install_script_main and the helpers it *)
(* drives (src/install_psbody/infra.py, __main__.py, install_pyopengl.py). *)
(* The top-level process, the trampoline shell and the two re-executed     *)
(* children are modelled as sequential processes; every external command   *)
(* and filesystem operation is one step whose outcome the environment      *)
(* chooses.                                                                *)
(***************************************************************************)
EXTENDS Integers, Sequences, FiniteSets, TLC

VARIABLES
    platform,   \* os.name of the machine: "posix" or "nt"
    activeEnv,  \* name of the active conda environment, "None" when there is none
    pipListing, \* number of pip version lines a listing of the environment's
                \* packages prints
    disk,       \* the artifacts on disk
    disk0,      \* the disk when the top-level process started
    proc,       \* the python processes: top-level, build child, validate child
    shell,      \* the shell running the trampoline script
    issued,     \* external commands and filesystem removals, in order
    logged,     \* the log messages emitted so far
    fn          \* argument and result of the pure function applied on its own

vars == <<platform, activeEnv, pipListing, disk, disk0, proc, shell, issued, logged, fn>>

\* ------------------------------------------------------------------ bounds

\* largest exit status an external command returns
MaxRc == 2
\* largest status the activation script returns
MaxActivateRc == 1
\* longest `conda info` output, in lines
MaxLines == 3
\* largest size of a supported-tag set
MaxTags == 2

Rc == 0..MaxRc

\* --------------------------------------------------------------- constants

Procs == {"top", "build", "validate"}

PREPARE == "prepare_environment"
EXECUTE_BUILD == "execute_build"
VALIDATE == "validate_build"

Last(s) == s[Len(s)]
Front(s) == SubSeq(s, 1, Len(s) - 1)

\* ----------------------------------------------------- command-line parsing

\* index of the last occurrence of "--environment" that has a value after it
RECURSIVE LastEnvIndex(_, _)
LastEnvIndex(av, i) ==
    IF i < 1 THEN 0
    ELSE IF av[i] = "--environment" /\ i < Len(av) THEN i
    ELSE LastEnvIndex(av, i - 1)

Has(av, flag) == \E i \in 1..Len(av) : av[i] = flag

\* argparse: the store_true flags, and --environment with its default
parse_args(av) ==
    [ no_cleanup  |-> Has(av, "--no-cleanup"),
      verbose     |-> Has(av, "--verbose"),
      yes         |-> Has(av, "--yes"),
      environment |-> IF LastEnvIndex(av, Len(av)) = 0 THEN PREPARE
                      ELSE av[LastEnvIndex(av, Len(av)) + 1] ]

child_argv_marker_only(av, stage) == <<"--environment", stage>>

\* argv of the re-executed child: sys.argv[1:] then the stage marker
child_argv(av, stage) == av \o <<"--environment", stage>>

\* ------------------------------------------------------- conda info parsing

Labels == {"active environment", "base environment", "conda version"}
Values == {"None", "base"}

\* one output line: a label, whether " : " separates it from the value, a value
Line == [label : Labels, sep : BOOLEAN, value : Values]

\* re.match("%s +: +(?P<value>.*)" % key, line.strip())
LineMatches(key, line) == line.label = key /\ line.sep

\* parse_conda_info without its first-match shortcut: the lines that match
MatchingLines(key, lines) == SelectSeq(lines, LAMBDA l : LineMatches(key, l))

parse_conda_info_first(key, lines) ==
    LET m == MatchingLines(key, lines)
    IN  IF Len(m) = 0 THEN [ok |-> FALSE, value |-> "AssertionError"]
        ELSE [ok |-> TRUE, value |-> m[1].value]

parse_conda_info(key, lines) ==
    LET m == MatchingLines(key, lines)
    IN  IF Len(m) # 1 THEN [ok |-> FALSE, value |-> "AssertionError"]
        ELSE [ok |-> TRUE, value |-> m[1].value]

AE(v) == [label |-> "active environment", sep |-> TRUE, value |-> v]
BE == [label |-> "base environment", sep |-> TRUE, value |-> "base"]
CV == [label |-> "conda version", sep |-> TRUE, value |-> "base"]

\* the outputs `conda info` gives in the pipeline: the usual one, and the
\* malformed ones with a labelled line missing or repeated
InfoOutputs(env) ==
    { <<AE(env), BE, CV>>, <<CV>>, <<AE(env), AE(env), BE>>, <<AE(env), BE, BE>> }

\* --------------------------------------------------------------- the disk

\* The checkout directory REPO_DIR of the original directory, a checkout
\* directory nested in it, the trampoline script of the original directory
\* and the one inside the checkout directory.  A directory or script is
\* tagged with what made it.
RepoTags == {"absent", "stale", PREPARE, VALIDATE, EXECUTE_BUILD}
TrampTags == {"absent", "stale", "empty", EXECUTE_BUILD, VALIDATE}

RmFaults == {"none", "readonly", "other"}

rmtree_git_repo_anyplatform(plat, fault, retryOk) ==
    IF fault = "none"
    THEN [ removed |-> TRUE, tries |-> 1, chmod |-> FALSE ]
    ELSE IF fault = "readonly"
    THEN [ removed |-> retryOk, tries |-> 2, chmod |-> TRUE ]
    ELSE [ removed |-> FALSE, tries |-> 1, chmod |-> FALSE ]

\* shutil.rmtree with readonly_handler: a deletion refused with
\* PermissionError 13 is retried once after chmod, on Windows only
rmtree_git_repo(plat, fault, retryOk) ==
    IF fault = "none"
    THEN [ removed |-> TRUE, tries |-> 1, chmod |-> FALSE ]
    ELSE IF plat = "nt" /\ fault = "readonly"
    THEN [ removed |-> retryOk, tries |-> 2, chmod |-> TRUE ]
    ELSE [ removed |-> FALSE, tries |-> 1, chmod |-> FALSE ]

\* os.chdir(dir_name) and os.chdir("..")
ChdirInto(cwd) == IF cwd = "orig" THEN "repo" ELSE "nested"
ChdirUp(cwd) == IF cwd = "nested" THEN "repo" ELSE "orig"

\* the directory dir_name names in working directory cwd
RepoAt(d, cwd) == IF cwd = "orig" THEN d.repo ELSE d.nested

SetRepoAt(d, cwd, tag) ==
    IF cwd = "orig" THEN [d EXCEPT !.repo = tag] ELSE [d EXCEPT !.nested = tag]

\* the disk after the directory dir_name of cwd and all it holds is gone
RemoveRepo(d, cwd) ==
    IF cwd = "orig"
    THEN [d EXCEPT !.repo = "absent", !.trampRepo = "absent", !.nested = "absent"]
    ELSE [d EXCEPT !.nested = "absent"]

\* the trampoline script named script_name in working directory cwd
TrampAt(d, cwd) == IF cwd = "orig" THEN d.trampOrig ELSE d.trampRepo

SetTrampAt(d, cwd, tag) ==
    IF cwd = "orig" THEN [d EXCEPT !.trampOrig = tag]
    ELSE [d EXCEPT !.trampRepo = tag]

\* ------------------------------------------------- windows wheel selection

NBH == "nbhyphen"   \* the non-breaking hyphen of the wheel file names
HY == "-"           \* the hyphen of a compatible-tag line

\* a wheel file name as its characters, grouped
Whl(name, version, py, abi, plat) ==
    <<name, NBH, version, NBH, py, NBH, abi, NBH, plat, ".whl">>

GL == "PyOpenGL"
ACC == "PyOpenGL_accelerate"

Pair(version, py, abi, plat) ==
    <<Whl(GL, version, py, abi, plat), Whl(ACC, version, py, abi, plat)>>

pyopengl_versions ==
    << Pair("3.1.5", "pp37", "pypy37_pp73", "win_amd64"),
       Pair("3.1.5", "cp310", "cp310", "win_amd64"),
       Pair("3.1.5", "cp310", "cp310", "win32"),
       Pair("3.1.5", "cp39", "cp39", "win_amd64"),
       Pair("3.1.5", "cp39", "cp39", "win32"),
       Pair("3.1.5", "cp38", "cp38", "win_amd64"),
       Pair("3.1.5", "cp38", "cp38", "win32"),
       Pair("3.1.5", "cp37", "cp37m", "win_amd64"),
       Pair("3.1.5", "cp37", "cp37m", "win32"),
       Pair("3.1.5", "cp36", "cp36m", "win_amd64"),
       Pair("3.1.5", "cp36", "cp36m", "win32"),
       Pair("3.1.5", "cp35", "cp35m", "win_amd64"),
       Pair("3.1.5", "cp35", "cp35m", "win32"),
       Pair("3.1.5", "cp27", "cp27m", "win_amd64"),
       Pair("3.1.5", "cp27", "cp27m", "win32"),
       Pair("3.1.3b2", "cp34", "cp34m", "win_amd64"),
       Pair("3.1.3b2", "cp34", "cp34m", "win32") >>

\* str.split(sep): the pieces between the separators
RECURSIVE Split(_, _, _, _)
Split(s, sep, i, cur) ==
    IF i > Len(s) THEN <<cur>>
    ELSE IF s[i] = sep THEN <<cur>> \o Split(s, sep, i + 1, <<>>)
    ELSE Split(s, sep, i + 1, Append(cur, s[i]))

\* name, version, *tags = fullname[:-len(".whl")].split(NBH)
WheelParts(fullname) == Split(Front(fullname), NBH, 1, <<>>)
WheelVersion(fullname) == WheelParts(fullname)[2]
WheelTags(fullname) == SubSeq(WheelParts(fullname), 3, Len(WheelParts(fullname)))

\* tuple(line.split("-")) of a line of the compatible-tags listing
TagOfLine(line) == Split(line, HY, 1, <<>>)

TagLine(py, abi, plat) == <<py, HY, abi, HY, plat>>

\* the for loop of fetch_version_and_links from entry i on: the index of the
\* entry it breaks at, 0 when the loop runs to its else branch
RECURSIVE ScanLast(_, _, _)
ScanLast(i, supported, found) ==
    IF i > Len(pyopengl_versions) THEN found
    ELSE IF WheelTags(pyopengl_versions[i][1]) \in supported
    THEN ScanLast(i + 1, supported, i)
    ELSE ScanLast(i + 1, supported, found)

ScanNoBreak(i, supported) == ScanLast(i, supported, 0)

RECURSIVE Scan(_, _)
Scan(i, supported) ==
    IF i > Len(pyopengl_versions) THEN 0
    ELSE IF WheelTags(pyopengl_versions[i][1]) \in supported THEN i
    ELSE Scan(i + 1, supported)

\* the download directory: cp36 and cp35 wheels have their own
DownloadDir(fullname) ==
    IF \E i \in 2..(Len(fullname) - 1) :
           fullname[i - 1] = NBH /\ fullname[i] = "cp36" /\ fullname[i + 1] = NBH
    THEN "cp36"
    ELSE IF \E i \in 2..(Len(fullname) - 1) :
           fullname[i - 1] = NBH /\ fullname[i] = "cp35" /\ fullname[i + 1] = NBH
    THEN "cp35"
    ELSE "root"

\* fetch_version_and_links given the lines of the compatible-tags listing
fetch_version_and_links(lines) ==
    LET supported == { TagOfLine(l) : l \in lines }
        k == Scan(1, supported)
    IN  IF k = 0
        THEN [ok |-> FALSE, index |-> 0, version |-> "ValueError", dir |-> "none"]
        ELSE [ok |-> TRUE, index |-> k,
              version |-> WheelVersion(pyopengl_versions[k][1])[1],
              dir |-> DownloadDir(pyopengl_versions[k][1])]

\* the tag lines a compatible-tags listing may hold: those of the table and
\* three the table has no wheel for
TableTagLines ==
    { TagLine(WheelTags(pyopengl_versions[i][1])[1][1],
              WheelTags(pyopengl_versions[i][1])[2][1],
              WheelTags(pyopengl_versions[i][1])[3][1]) :
        i \in 1..Len(pyopengl_versions) }

TagLines ==
    TableTagLines \cup
    { TagLine("cp39", "none", "any"), TagLine("py3", "none", "any"),
      TagLine("cp311", "cp311", "win_amd64") }

\* ------------------------------------------------------------ the processes

NoArgs == [no_cleanup |-> FALSE, verbose |-> FALSE, yes |-> FALSE, environment |-> "unparsed"]

\* a process that has not been started
Idle ==
    [ pc |-> "idle", argv |-> <<>>, args |-> NoArgs, cwd |-> "orig",
      scopes |-> <<>>, exc |-> FALSE, status |-> -1,
      env_name |-> "unset", target |-> "none" ]

NoShell == [pc |-> "idle", stage |-> "none", cwd |-> "orig", argv |-> <<>>,
            parent |-> "none", status |-> -1]

FlagArgv(nc, vb, y) ==
    (IF nc THEN <<"--no-cleanup">> ELSE <<>>) \o
    (IF vb THEN <<"--verbose">> ELSE <<>>) \o
    (IF y THEN <<"--yes">> ELSE <<>>)

\* what a user may type after the flags: nothing, or the internal flag
Markers == { <<>>, <<"--environment", EXECUTE_BUILD>>,
             <<"--environment", VALIDATE>>, <<"--environment", "bogus">> }

TopArgvs == { FlagArgv(nc, vb, y) \o m : nc \in BOOLEAN, vb \in BOOLEAN, y \in BOOLEAN, m \in Markers }

\* what earlier runs may have left behind
Disks == { d \in [repo : {"absent", "stale"}, trampOrig : {"absent", "stale"},
                  trampRepo : {"absent", "stale"}, nested : {"absent"}] :
             d.repo = "absent" => d.trampRepo = "absent" }

NoFn == [kind |-> "none"]

Init ==
    /\ platform \in {"posix", "nt"}
    /\ activeEnv \in Values
    /\ pipListing \in {1, 2}
    /\ disk \in Disks
    /\ disk0 = disk
    /\ \E av \in TopArgvs :
         proc = [p \in Procs |-> IF p = "top" THEN [Idle EXCEPT !.pc = "start", !.argv = av]
                                 ELSE Idle]
    /\ shell = NoShell
    /\ issued = <<>>
    /\ logged = {}
    /\ fn = NoFn

\* cleanup=not do_not_cleanup, as every scope of process p is given it
Cleanup(p) == ~proc[p].args.no_cleanup

\* one entry of the command history
Cmd(p, name, rc) == [p |-> p, cmd |-> name, rc |-> rc]

\* run(): a non-zero exit is logged before CalledProcessError propagates
LogRun(rc) == IF rc = 0 THEN logged ELSE logged \cup {"error"}

\* an exception leaves the current statement: the enclosing finally blocks run
Raised(q) == [q EXCEPT !.exc = TRUE, !.pc = "unwind"]

\* a process ends: normally with status 0, by an uncaught exception with 1
Exited(q, st) == [q EXCEPT !.pc = "done", !.status = st]

Unwinding_outermost(p, scope) ==
    /\ proc[p].pc = "unwind"
    /\ proc[p].scopes # <<>>
    /\ proc[p].scopes[1] = scope

\* the scope whose finally block runs next while process p unwinds
Unwinding(p, scope) ==
    /\ proc[p].pc = "unwind"
    /\ proc[p].scopes # <<>>
    /\ Last(proc[p].scopes) = scope

Main_default(p) ==
    /\ proc[p].pc = "start"
    /\ LET a == parse_args(proc[p].argv)
       IN  proc' = [proc EXCEPT ![p] =
                IF a.environment = EXECUTE_BUILD THEN [@ EXCEPT !.args = a, !.pc = "pip_upgrade"]
                ELSE IF a.environment = VALIDATE THEN [@ EXCEPT !.args = a, !.pc = "git_rmstale"]
                ELSE [@ EXCEPT !.args = a, !.pc = "detect"]]
    /\ UNCHANGED <<platform, activeEnv, pipListing, disk, disk0, shell, issued, logged, fn>>

\* install_script_main: parse the arguments and branch on --environment
Main(p) ==
    /\ proc[p].pc = "start"
    /\ LET a == parse_args(proc[p].argv)
       IN  proc' = [proc EXCEPT ![p] =
                IF a.environment = PREPARE THEN [@ EXCEPT !.args = a, !.pc = "detect"]
                ELSE IF a.environment = EXECUTE_BUILD THEN [@ EXCEPT !.args = a, !.pc = "pip_upgrade"]
                ELSE IF a.environment = VALIDATE THEN [@ EXCEPT !.args = a, !.pc = "git_rmstale"]
                ELSE Exited([@ EXCEPT !.args = a], 0)]
    /\ UNCHANGED <<platform, activeEnv, pipListing, disk, disk0, shell, issued, logged, fn>>

detect_conda_environment_lenient(p) ==
    /\ proc[p].pc = "detect"
    /\ \E rc \in Rc, out \in InfoOutputs(activeEnv) :
         LET r == parse_conda_info("active environment", out)
         IN  /\ issued' = Append(issued, Cmd(p, "conda_info", rc))
             /\ logged' = LogRun(rc)
             /\ proc' = [proc EXCEPT ![p] =
                    IF rc # 0 \/ ~r.ok THEN Raised(@)
                    ELSE [@ EXCEPT !.env_name = r.value, !.pc = "git_rmstale"]]
    /\ UNCHANGED <<platform, activeEnv, pipListing, disk, disk0, shell, fn>>

\* detect_conda_environment: conda info, the single "active environment"
\* line, and the refusal to run outside an environment
detect_conda_environment(p) ==
    /\ proc[p].pc = "detect"
    /\ \E rc \in Rc, out \in InfoOutputs(activeEnv) :
         LET r == parse_conda_info("active environment", out)
         IN  /\ issued' = Append(issued, Cmd(p, "conda_info", rc))
             /\ logged' = IF rc = 0 /\ r.ok /\ r.value = "None"
                          THEN logged \cup {"fatal_no_environment"}
                          ELSE LogRun(rc)
             /\ proc' = [proc EXCEPT ![p] =
                    IF rc # 0 \/ ~r.ok \/ r.value = "None" THEN Raised(@)
                    ELSE [@ EXCEPT !.env_name = r.value, !.pc = "git_rmstale"]]
    /\ UNCHANGED <<platform, activeEnv, pipListing, disk, disk0, shell, fn>>

\* ---- inside_git_repository

GitRmStale_skip(p) ==
    /\ proc[p].pc = "git_rmstale"
    /\ proc' = [proc EXCEPT ![p].pc = "git_clone"]
    /\ UNCHANGED <<platform, activeEnv, pipListing, disk, disk0, shell, issued, logged, fn>>

\* if os.path.exists(dir_name): rmtree_git_repo(dir_name)
GitRmStale(p) ==
    /\ proc[p].pc = "git_rmstale"
    /\ \/ /\ RepoAt(disk, proc[p].cwd) = "absent"
          /\ proc' = [proc EXCEPT ![p].pc = "git_clone"]
          /\ UNCHANGED <<disk, issued>>
       \/ /\ RepoAt(disk, proc[p].cwd) # "absent"
          /\ \E fault \in RmFaults, retryOk \in BOOLEAN :
               LET r == rmtree_git_repo(platform, fault, retryOk)
               IN  /\ issued' = Append(issued, Cmd(p, "rmtree", IF r.removed THEN 0 ELSE 1))
                   /\ disk' = IF r.removed THEN RemoveRepo(disk, proc[p].cwd) ELSE disk
                   /\ proc' = [proc EXCEPT ![p] =
                          IF r.removed THEN [@ EXCEPT !.pc = "git_clone"] ELSE Raised(@)]
    /\ UNCHANGED <<platform, activeEnv, pipListing, disk0, shell, logged, fn>>

\* run(["git", "clone", repo_url, dir_name]); os.chdir(dir_name).  git refuses
\* to clone into a directory that exists.
GitClone(p) ==
    /\ proc[p].pc = "git_clone"
    /\ \E rc \in Rc :
         /\ RepoAt(disk, proc[p].cwd) # "absent" => rc # 0
         /\ issued' = Append(issued, Cmd(p, "git_clone", rc))
         /\ logged' = LogRun(rc)
         /\ disk' = IF rc = 0 THEN SetRepoAt(disk, proc[p].cwd, proc[p].args.environment)
                    ELSE disk
         /\ proc' = [proc EXCEPT ![p] =
                IF rc = 0 THEN [@ EXCEPT !.cwd = ChdirInto(@), !.pc = "git_checkout"]
                ELSE Raised(@)]
    /\ UNCHANGED <<platform, activeEnv, pipListing, disk0, shell, fn>>

\* run(["git", "checkout", repo_hash]), then the try block is entered
GitCheckout(p) ==
    /\ proc[p].pc = "git_checkout"
    /\ \E rc \in Rc :
         /\ issued' = Append(issued, Cmd(p, "git_checkout", rc))
         /\ logged' = LogRun(rc)
         /\ proc' = [proc EXCEPT ![p] =
                IF rc # 0 THEN Raised(@)
                ELSE [@ EXCEPT !.scopes = Append(@, "repo"),
                               !.pc = IF proc[p].args.environment = PREPARE
                                      THEN "install_compiler" ELSE "rm_data"]]
    /\ UNCHANGED <<platform, activeEnv, pipListing, disk, disk0, shell, fn>>

GitFinally_nochdir(p) ==
    /\ proc[p].pc = "git_finally" \/ Unwinding(p, "repo")
    /\ \E fault \in RmFaults, retryOk \in BOOLEAN :
         LET r == rmtree_git_repo(platform, fault, retryOk)
             there == RepoAt(disk, proc[p].cwd) # "absent"
             gone == ~Cleanup(p) \/ (there /\ r.removed)
         IN  /\ issued' = IF Cleanup(p)
                          THEN Append(issued, Cmd(p, "rmtree", IF there /\ r.removed THEN 0 ELSE 1))
                          ELSE issued
             /\ disk' = IF Cleanup(p) /\ there /\ r.removed
                        THEN RemoveRepo(disk, proc[p].cwd) ELSE disk
             /\ proc' = [proc EXCEPT ![p] =
                    IF proc[p].exc \/ ~gone
                    THEN Raised([@ EXCEPT !.scopes = Front(@)])
                    ELSE IF proc[p].args.environment = PREPARE
                    THEN [@ EXCEPT !.scopes = Front(@), !.pc = "tr_open", !.target = VALIDATE]
                    ELSE Exited([@ EXCEPT !.scopes = Front(@)], 0)]
    /\ UNCHANGED <<platform, activeEnv, pipListing, disk0, shell, logged, fn>>

GitFinally_keep(p) ==
    /\ proc[p].pc = "git_finally" \/ Unwinding(p, "repo")
    /\ \E fault \in RmFaults, retryOk \in BOOLEAN :
         LET r == rmtree_git_repo(platform, fault, retryOk)
             clean == Cleanup(p) /\ ~proc[p].exc
             gone == ~clean \/ r.removed
         IN  /\ issued' = IF clean
                          THEN Append(issued, Cmd(p, "rmtree", IF r.removed THEN 0 ELSE 1))
                          ELSE issued
             /\ disk' = IF clean /\ r.removed
                        THEN RemoveRepo(disk, ChdirUp(proc[p].cwd)) ELSE disk
             /\ proc' = [proc EXCEPT ![p] =
                    IF proc[p].exc \/ ~gone
                    THEN Raised([@ EXCEPT !.scopes = Front(@), !.cwd = ChdirUp(@)])
                    ELSE IF proc[p].args.environment = PREPARE
                    THEN [@ EXCEPT !.scopes = Front(@), !.cwd = ChdirUp(@),
                                   !.pc = "tr_open", !.target = VALIDATE]
                    ELSE Exited([@ EXCEPT !.scopes = Front(@), !.cwd = ChdirUp(@)], 0)]
    /\ UNCHANGED <<platform, activeEnv, pipListing, disk0, shell, logged, fn>>

\* finally: os.chdir(".."); if cleanup: rmtree_git_repo(dir_name).  Then the
\* statement after the with block: the validate trampoline in the driver, the
\* end of validate_build in the validate stage.
GitFinally(p) ==
    /\ proc[p].pc = "git_finally" \/ Unwinding(p, "repo")
    /\ \E fault \in RmFaults, retryOk \in BOOLEAN :
         LET r == rmtree_git_repo(platform, fault, retryOk)
             gone == ~Cleanup(p) \/ r.removed
         IN  /\ issued' = IF Cleanup(p)
                          THEN Append(issued, Cmd(p, "rmtree", IF r.removed THEN 0 ELSE 1))
                          ELSE issued
             /\ disk' = IF Cleanup(p) /\ r.removed
                        THEN RemoveRepo(disk, ChdirUp(proc[p].cwd)) ELSE disk
             /\ proc' = [proc EXCEPT ![p] =
                    IF proc[p].exc \/ ~gone
                    THEN Raised([@ EXCEPT !.scopes = Front(@), !.cwd = ChdirUp(@)])
                    ELSE IF proc[p].args.environment = PREPARE
                    THEN [@ EXCEPT !.scopes = Front(@), !.cwd = ChdirUp(@),
                                   !.pc = "tr_open", !.target = VALIDATE]
                    ELSE Exited([@ EXCEPT !.scopes = Front(@), !.cwd = ChdirUp(@)], 0)]
    /\ UNCHANGED <<platform, activeEnv, pipListing, disk0, shell, logged, fn>>

\* ---- psbody_prepare_environment, inside the checkout

\* install_compiling_dependencies: one conda install, no teardown
InstallCompiler(p) ==
    /\ proc[p].pc = "install_compiler"
    /\ \E rc \in Rc :
         /\ issued' = Append(issued, Cmd(p, "conda_install_compiler", rc))
         /\ logged' = LogRun(rc)
         /\ proc' = [proc EXCEPT ![p] =
                IF rc = 0 THEN [@ EXCEPT !.pc = "install_boost"] ELSE Raised(@)]
    /\ UNCHANGED <<platform, activeEnv, pipListing, disk, disk0, shell, fn>>

InstallBoost_unchecked(p) ==
    /\ proc[p].pc = "install_boost"
    /\ \E rc \in Rc :
         /\ issued' = Append(issued, Cmd(p, "conda_install_boost", rc))
         /\ logged' = LogRun(rc)
         /\ proc' = [proc EXCEPT ![p].pc = "install_pyopengl"]
    /\ UNCHANGED <<platform, activeEnv, pipListing, disk, disk0, shell, fn>>

\* install_boost
InstallBoost(p) ==
    /\ proc[p].pc = "install_boost"
    /\ \E rc \in Rc :
         /\ issued' = Append(issued, Cmd(p, "conda_install_boost", rc))
         /\ logged' = LogRun(rc)
         /\ proc' = [proc EXCEPT ![p] =
                IF rc = 0 THEN [@ EXCEPT !.pc = "install_pyopengl"] ELSE Raised(@)]
    /\ UNCHANGED <<platform, activeEnv, pipListing, disk, disk0, shell, fn>>

InstallPyopengl_reinstall(p) ==
    /\ proc[p].pc = "install_pyopengl"
    /\ \/ /\ platform # "nt"
          /\ \E rc \in Rc :
               /\ issued' = Append(issued, Cmd(p, "pip_install_pyopengl", rc))
               /\ logged' = LogRun(rc)
               /\ proc' = [proc EXCEPT ![p] =
                      IF rc = 0 THEN [@ EXCEPT !.pc = "tr_open", !.target = EXECUTE_BUILD]
                      ELSE Raised(@)]
       \/ /\ platform = "nt"
          /\ \E installed \in BOOLEAN :
               /\ logged' = IF installed THEN logged \cup {"warn_pyopengl_installed"} ELSE logged
               /\ proc' = [proc EXCEPT ![p].pc = "gl_fetch"]
          /\ UNCHANGED issued
    /\ UNCHANGED <<platform, activeEnv, pipListing, disk, disk0, shell, fn>>

\* install_pyopengl: from the package index, or on Windows the check for an
\* installed PyOpenGL (get_pyopengl_version) before the wheel is looked up.
\* After it the with block of install_script_main starts the build trampoline.
InstallPyopengl(p) ==
    /\ proc[p].pc = "install_pyopengl"
    /\ \/ /\ platform # "nt"
          /\ \E rc \in Rc :
               /\ issued' = Append(issued, Cmd(p, "pip_install_pyopengl", rc))
               /\ logged' = LogRun(rc)
               /\ proc' = [proc EXCEPT ![p] =
                      IF rc = 0 THEN [@ EXCEPT !.pc = "tr_open", !.target = EXECUTE_BUILD]
                      ELSE Raised(@)]
       \/ /\ platform = "nt"
          /\ \E installed \in BOOLEAN :
               /\ logged' = IF installed THEN logged \cup {"warn_pyopengl_installed"} ELSE logged
               /\ proc' = [proc EXCEPT ![p] =
                      IF installed THEN [@ EXCEPT !.pc = "tr_open", !.target = EXECUTE_BUILD]
                      ELSE [@ EXCEPT !.pc = "gl_fetch"]]
          /\ UNCHANGED issued
    /\ UNCHANGED <<platform, activeEnv, pipListing, disk, disk0, shell, fn>>

\* the compatible-tags listings met in the pipeline: none of the table's
\* tags, one of them, several of them
PipelineTagListings ==
    { {TagLine("py3", "none", "any")},
      {TagLine("cp39", "cp39", "win_amd64"), TagLine("cp39", "none", "any")},
      {TagLine("cp38", "cp38", "win32"), TagLine("cp36", "cp36m", "win_amd64")} }

FetchVersionAndLinks_fallback(p) ==
    /\ proc[p].pc = "gl_fetch"
    /\ \E legacy \in BOOLEAN, rc \in Rc, header \in BOOLEAN, lines \in PipelineTagListings :
         LET r == fetch_version_and_links(lines)
             listed == legacy \/ (rc = 0 /\ header)
         IN  /\ legacy => rc = 0 /\ header
             /\ issued' = IF legacy THEN issued ELSE Append(issued, Cmd(p, "pip_debug", rc))
             /\ logged' = IF listed /\ ~r.ok THEN logged \cup {"fatal_no_binary"}
                          ELSE LogRun(rc)
             /\ proc' = [proc EXCEPT ![p] =
                    IF listed THEN [@ EXCEPT !.pc = "gl_install"] ELSE Raised(@)]
    /\ UNCHANGED <<platform, activeEnv, pipListing, disk, disk0, shell, fn>>

\* fetch_version_and_links: get_compatible_tags (the pip API, or `pip debug`
\* and its "Compatible tags:" header), then the scan of the table
FetchVersionAndLinks(p) ==
    /\ proc[p].pc = "gl_fetch"
    /\ \E legacy \in BOOLEAN, rc \in Rc, header \in BOOLEAN, lines \in PipelineTagListings :
         LET r == fetch_version_and_links(lines)
             listed == legacy \/ (rc = 0 /\ header)
         IN  /\ legacy => rc = 0 /\ header
             /\ issued' = IF legacy THEN issued ELSE Append(issued, Cmd(p, "pip_debug", rc))
             /\ logged' = IF listed /\ ~r.ok THEN logged \cup {"fatal_no_binary"}
                          ELSE LogRun(rc)
             /\ proc' = [proc EXCEPT ![p] =
                    IF listed /\ r.ok THEN [@ EXCEPT !.pc = "gl_install"] ELSE Raised(@)]
    /\ UNCHANGED <<platform, activeEnv, pipListing, disk, disk0, shell, fn>>

\* run(["pip", "install", gl_link])
GlInstall(p) ==
    /\ proc[p].pc = "gl_install"
    /\ \E rc \in Rc :
         /\ issued' = Append(issued, Cmd(p, "pip_install_gl_wheel", rc))
         /\ logged' = LogRun(rc)
         /\ proc' = [proc EXCEPT ![p] =
                IF rc = 0 THEN [@ EXCEPT !.pc = "gl_accel"] ELSE Raised(@)]
    /\ UNCHANGED <<platform, activeEnv, pipListing, disk, disk0, shell, fn>>

\* run(["pip", "install", accel_link])
GlAccel(p) ==
    /\ proc[p].pc = "gl_accel"
    /\ \E rc \in Rc :
         /\ issued' = Append(issued, Cmd(p, "pip_install_accel_wheel", rc))
         /\ logged' = LogRun(rc)
         /\ proc' = [proc EXCEPT ![p] =
                IF rc = 0 THEN [@ EXCEPT !.pc = "tr_open", !.target = EXECUTE_BUILD]
                ELSE Raised(@)]
    /\ UNCHANGED <<platform, activeEnv, pipListing, disk, disk0, shell, fn>>

\* ---- run_with_reactivated_environment

\* try: open(script_name, "w"), which empties a script that exists
TrOpen(p) ==
    /\ proc[p].pc = "tr_open"
    /\ \E ok \in BOOLEAN :
         /\ disk' = IF ok THEN SetTrampAt(disk, proc[p].cwd, "empty") ELSE disk
         /\ proc' = [proc EXCEPT ![p] =
                IF ok THEN [@ EXCEPT !.scopes = Append(@, "tramp"), !.pc = "tr_write"]
                ELSE Raised([@ EXCEPT !.scopes = Append(@, "tramp")])]
    /\ UNCHANGED <<platform, activeEnv, pipListing, disk0, shell, issued, logged, fn>>

\* detect_conda_activate_script, then the lines of the template are written
TrWrite(p) ==
    /\ proc[p].pc = "tr_write"
    /\ \E rc \in Rc, out \in InfoOutputs(activeEnv) :
         LET r == parse_conda_info("base environment", out)
             ok == rc = 0 /\ r.ok
         IN  /\ issued' = Append(issued, Cmd(p, "conda_info", rc))
             /\ logged' = LogRun(rc)
             /\ disk' = IF ok THEN SetTrampAt(disk, proc[p].cwd, proc[p].target) ELSE disk
             /\ proc' = [proc EXCEPT ![p] =
                    IF ~ok THEN Raised(@)
                    ELSE [@ EXCEPT !.pc = IF platform = "nt" THEN "tr_run" ELSE "tr_chmod"]]
    /\ UNCHANGED <<platform, activeEnv, pipListing, disk0, shell, fn>>

\* run(["chmod", "+x", script_name]), not on Windows
TrChmod(p) ==
    /\ proc[p].pc = "tr_chmod"
    /\ \E rc \in Rc :
         /\ issued' = Append(issued, Cmd(p, "chmod", rc))
         /\ logged' = LogRun(rc)
         /\ proc' = [proc EXCEPT ![p] =
                IF rc = 0 THEN [@ EXCEPT !.pc = "tr_run"] ELSE Raised(@)]
    /\ UNCHANGED <<platform, activeEnv, pipListing, disk, disk0, shell, fn>>

TrRun_nowait(p) ==
    /\ proc[p].pc = "tr_run"
    /\ shell' = [pc |-> "activate", stage |-> TrampAt(disk, proc[p].cwd),
                 cwd |-> proc[p].cwd, argv |-> proc[p].argv, parent |-> p, status |-> -1]
    /\ proc' = [proc EXCEPT ![p].pc = "tr_finally"]
    /\ UNCHANGED <<platform, activeEnv, pipListing, disk, disk0, issued, logged, fn>>

\* run([script_name]): a shell starts on the script in the working directory
\* and the process waits for it
TrRun(p) ==
    /\ proc[p].pc = "tr_run"
    /\ shell' = [pc |-> "activate", stage |-> TrampAt(disk, proc[p].cwd),
                 cwd |-> proc[p].cwd, argv |-> proc[p].argv, parent |-> p, status |-> -1]
    /\ proc' = [proc EXCEPT ![p].pc = "tr_wait"]
    /\ UNCHANGED <<platform, activeEnv, pipListing, disk, disk0, issued, logged, fn>>

\* the first line of the script: source / call the activation script.  The
\* batch script exits 1 when it fails; the bash script goes on.
ShellActivate ==
    /\ shell.pc = "activate"
    /\ \E rc \in 0..MaxActivateRc :
         /\ issued' = Append(issued, Cmd("shell", "activate", rc))
         /\ shell' = IF rc # 0 /\ platform = "nt"
                     THEN [shell EXCEPT !.pc = "done", !.status = 1]
                     ELSE [shell EXCEPT !.pc = "command"]
    /\ UNCHANGED <<platform, activeEnv, pipListing, disk, disk0, proc, logged, fn>>

\* the slot of the child a stage marker starts
ChildOf(stage) == IF stage = EXECUTE_BUILD THEN "build" ELSE "validate"

ShellCommand_origcwd ==
    /\ shell.pc = "command"
    /\ proc' = [proc EXCEPT ![ChildOf(shell.stage)] =
           [Idle EXCEPT !.pc = "start", !.cwd = "orig",
                        !.argv = child_argv(shell.argv, shell.stage)]]
    /\ shell' = [shell EXCEPT !.pc = "wait"]
    /\ UNCHANGED <<platform, activeEnv, pipListing, disk, disk0, issued, logged, fn>>

\* the command line of the script: python script_path argv... --environment stage
ShellCommand ==
    /\ shell.pc = "command"
    /\ proc' = [proc EXCEPT ![ChildOf(shell.stage)] =
           [Idle EXCEPT !.pc = "start", !.cwd = shell.cwd,
                        !.argv = child_argv(shell.argv, shell.stage)]]
    /\ shell' = [shell EXCEPT !.pc = "wait"]
    /\ UNCHANGED <<platform, activeEnv, pipListing, disk, disk0, issued, logged, fn>>

\* the script ends: with the status of its last command under bash, with
\* "if errorlevel 1 exit 1" under the batch interpreter
ShellExit ==
    /\ shell.pc = "wait"
    /\ proc[ChildOf(shell.stage)].pc = "done"
    /\ shell' = [shell EXCEPT !.pc = "done",
                     !.status = IF platform = "nt"
                                THEN (IF proc[ChildOf(shell.stage)].status >= 1 THEN 1 ELSE 0)
                                ELSE proc[ChildOf(shell.stage)].status]
    /\ UNCHANGED <<platform, activeEnv, pipListing, disk, disk0, proc, issued, logged, fn>>

\* the name the history gives the run of a trampoline script
TrampolineOf(stage) ==
    IF stage = EXECUTE_BUILD THEN "trampoline_build" ELSE "trampoline_validate"

TrWait_ignore(p) ==
    /\ proc[p].pc = "tr_wait"
    /\ shell.pc = "done"
    /\ issued' = Append(issued, Cmd(p, TrampolineOf(shell.stage), shell.status))
    /\ logged' = LogRun(shell.status)
    /\ proc' = [proc EXCEPT ![p].pc = "tr_finally"]
    /\ shell' = NoShell
    /\ UNCHANGED <<platform, activeEnv, pipListing, disk, disk0, fn>>

\* run() returns when the script has ended: check=True raises on a non-zero
\* exit status
TrWait(p) ==
    /\ proc[p].pc = "tr_wait"
    /\ shell.pc = "done"
    /\ issued' = Append(issued, Cmd(p, TrampolineOf(shell.stage), shell.status))
    /\ logged' = LogRun(shell.status)
    /\ proc' = [proc EXCEPT ![p] =
           IF shell.status = 0 THEN [@ EXCEPT !.pc = "tr_finally"] ELSE Raised(@)]
    /\ shell' = NoShell
    /\ UNCHANGED <<platform, activeEnv, pipListing, disk, disk0, fn>>

TrFinally_chain(p) ==
    /\ proc[p].pc = "tr_finally" \/ Unwinding(p, "tramp")
    /\ disk' = IF Cleanup(p) /\ TrampAt(disk, proc[p].cwd) # "absent"
               THEN SetTrampAt(disk, proc[p].cwd, "absent") ELSE disk
    /\ proc' = [proc EXCEPT ![p] =
           IF proc[p].exc THEN [@ EXCEPT !.scopes = Front(@), !.pc = "unwind"]
           ELSE IF proc[p].target = EXECUTE_BUILD
           THEN [@ EXCEPT !.scopes = Front(@), !.pc = "tr_open", !.target = VALIDATE]
           ELSE Exited([@ EXCEPT !.scopes = Front(@)], 0)]
    /\ UNCHANGED <<platform, activeEnv, pipListing, disk0, shell, issued, logged, fn>>

TrFinally_unconditional(p) ==
    /\ proc[p].pc = "tr_finally" \/ Unwinding(p, "tramp")
    /\ disk' = IF TrampAt(disk, proc[p].cwd) # "absent"
               THEN SetTrampAt(disk, proc[p].cwd, "absent") ELSE disk
    /\ proc' = [proc EXCEPT ![p] =
           IF proc[p].exc THEN [@ EXCEPT !.scopes = Front(@), !.pc = "unwind"]
           ELSE IF proc[p].target = EXECUTE_BUILD
           THEN [@ EXCEPT !.scopes = Front(@), !.pc = "git_finally"]
           ELSE Exited([@ EXCEPT !.scopes = Front(@)], 0)]
    /\ UNCHANGED <<platform, activeEnv, pipListing, disk0, shell, issued, logged, fn>>

\* finally: if cleanup and os.path.exists(script_name): os.unlink(script_name).
\* Then the statement after the call: the end of the with block after the
\* build trampoline, the end of install_script_main after the validate one.
TrFinally(p) ==
    /\ proc[p].pc = "tr_finally" \/ Unwinding(p, "tramp")
    /\ disk' = IF Cleanup(p) /\ TrampAt(disk, proc[p].cwd) # "absent"
               THEN SetTrampAt(disk, proc[p].cwd, "absent") ELSE disk
    /\ proc' = [proc EXCEPT ![p] =
           IF proc[p].exc THEN [@ EXCEPT !.scopes = Front(@), !.pc = "unwind"]
           ELSE IF proc[p].target = EXECUTE_BUILD
           THEN [@ EXCEPT !.scopes = Front(@), !.pc = "git_finally"]
           ELSE Exited([@ EXCEPT !.scopes = Front(@)], 0)]
    /\ UNCHANGED <<platform, activeEnv, pipListing, disk0, shell, issued, logged, fn>>

\* the commands run() started for process p that exited non-zero, by position
\* in the history (removals of files and directories are not commands)
FailedRuns(p) ==
    { i \in 1..Len(issued) :
        issued[i].p = p /\ issued[i].rc # 0 /\ issued[i].cmd \notin {"rmtree", "rmtree_data"} }

\* the largest element of a non-empty set of positions
MaxOf(S) == CHOOSE i \in S : \A j \in S : j <= i

Uncaught_returncode(p) ==
    /\ proc[p].pc = "unwind"
    /\ proc[p].scopes = <<>>
    /\ proc' = [proc EXCEPT ![p] =
           Exited(@, IF FailedRuns(p) = {} THEN 1 ELSE issued[MaxOf(FailedRuns(p))].rc)]
    /\ UNCHANGED <<platform, activeEnv, pipListing, disk, disk0, shell, issued, logged, fn>>

\* an exception no finally block is left for ends the process with status 1
Uncaught(p) ==
    /\ proc[p].pc = "unwind"
    /\ proc[p].scopes = <<>>
    /\ proc' = [proc EXCEPT ![p] = Exited(@, 1)]
    /\ UNCHANGED <<platform, activeEnv, pipListing, disk, disk0, shell, issued, logged, fn>>

\* ---- psbody_execute_build

\* with_upgraded_pip: the upgrade command, then the body of the with block.
\* No listing of the installed client is made or read; what it would print
\* is a fact of the environment.
PipUpgrade(p) ==
    /\ proc[p].pc = "pip_upgrade"
    /\ \E rc \in Rc :
         /\ issued' = Append(issued, Cmd(p, "pip_upgrade", rc))
         /\ logged' = LogRun(rc)
         /\ proc' = [proc EXCEPT ![p] =
                IF rc = 0 THEN [@ EXCEPT !.pc = "pip_requirements"] ELSE Raised(@)]
    /\ UNCHANGED <<platform, activeEnv, pipListing, disk, disk0, shell, fn>>

PipRequirements_retry(p) ==
    /\ proc[p].pc = "pip_requirements"
    /\ \E rc \in Rc :
         /\ issued' = Append(issued, Cmd(p, "pip_requirements", rc))
         /\ logged' = LogRun(rc)
         /\ proc' = [proc EXCEPT ![p] =
                IF rc = 0 THEN [@ EXCEPT !.pc = "pip_setup"]
                ELSE IF FailedRuns(p) = {} THEN @ ELSE Raised(@)]
    /\ UNCHANGED <<platform, activeEnv, pipListing, disk, disk0, shell, fn>>

\* pip install --upgrade -r requirements.txt; with_upgraded_pip has no teardown
PipRequirements(p) ==
    /\ proc[p].pc = "pip_requirements"
    /\ \E rc \in Rc :
         /\ issued' = Append(issued, Cmd(p, "pip_requirements", rc))
         /\ logged' = LogRun(rc)
         /\ proc' = [proc EXCEPT ![p] =
                IF rc = 0 THEN [@ EXCEPT !.pc = "pip_setup"] ELSE Raised(@)]
    /\ UNCHANGED <<platform, activeEnv, pipListing, disk, disk0, shell, fn>>

\* os.environ["CONDA_PREFIX"], unset outside an environment, then the build
\* command; its success ends the build stage
PipSetup(p) ==
    /\ proc[p].pc = "pip_setup"
    /\ \/ /\ activeEnv = "None"
          /\ proc' = [proc EXCEPT ![p] = Raised(@)]
          /\ UNCHANGED <<issued, logged>>
       \/ /\ activeEnv # "None"
          /\ \E rc \in Rc :
               /\ issued' = Append(issued, Cmd(p, "pip_setup", rc))
               /\ logged' = LogRun(rc)
               /\ proc' = [proc EXCEPT ![p] = IF rc = 0 THEN Exited(@, 0) ELSE Raised(@)]
    /\ UNCHANGED <<platform, activeEnv, pipListing, disk, disk0, shell, fn>>

\* ---- psbody_validate_build, inside its own checkout

\* shutil.rmtree("data")
RmData(p) ==
    /\ proc[p].pc = "rm_data"
    /\ \E ok \in BOOLEAN :
         /\ issued' = Append(issued, Cmd(p, "rmtree_data", IF ok THEN 0 ELSE 1))
         /\ proc' = [proc EXCEPT ![p] =
                IF ok THEN [@ EXCEPT !.pc = "checkout_data"] ELSE Raised(@)]
    /\ UNCHANGED <<platform, activeEnv, pipListing, disk, disk0, shell, logged, fn>>

\* run(["git", "checkout", "data"])
CheckoutData(p) ==
    /\ proc[p].pc = "checkout_data"
    /\ \E rc \in Rc :
         /\ issued' = Append(issued, Cmd(p, "git_checkout_data", rc))
         /\ logged' = LogRun(rc)
         /\ proc' = [proc EXCEPT ![p] =
                IF rc = 0 THEN [@ EXCEPT !.pc = "tests"] ELSE Raised(@)]
    /\ UNCHANGED <<platform, activeEnv, pipListing, disk, disk0, shell, fn>>

Tests_silent(p) ==
    /\ proc[p].pc = "tests"
    /\ \E rc \in Rc :
         /\ issued' = Append(issued, Cmd(p, "tests", rc))
         /\ logged' = LogRun(rc)
         /\ proc' = [proc EXCEPT ![p] =
                IF rc = 0 THEN [@ EXCEPT !.pc = "git_finally"] ELSE Raised(@)]
    /\ UNCHANGED <<platform, activeEnv, pipListing, disk, disk0, shell, fn>>

\* the test command of the platform, then the success message
Tests(p) ==
    /\ proc[p].pc = "tests"
    /\ \E rc \in Rc :
         /\ issued' = Append(issued, Cmd(p, "tests", rc))
         /\ logged' = IF rc = 0 THEN logged \cup {"success"} ELSE LogRun(rc)
         /\ proc' = [proc EXCEPT ![p] =
                IF rc = 0 THEN [@ EXCEPT !.pc = "git_finally"] ELSE Raised(@)]
    /\ UNCHANGED <<platform, activeEnv, pipListing, disk, disk0, shell, fn>>

\* ---------------------------------------------------------- the pipeline

Next ==
    \/ \E p \in Procs : Main(p)
    \/ \E p \in Procs : detect_conda_environment(p)
    \/ \E p \in Procs : GitRmStale(p)
    \/ \E p \in Procs : GitClone(p)
    \/ \E p \in Procs : GitCheckout(p)
    \/ \E p \in Procs : GitFinally(p)
    \/ \E p \in Procs : InstallCompiler(p)
    \/ \E p \in Procs : InstallBoost(p)
    \/ \E p \in Procs : InstallPyopengl(p)
    \/ \E p \in Procs : FetchVersionAndLinks(p)
    \/ \E p \in Procs : GlInstall(p)
    \/ \E p \in Procs : GlAccel(p)
    \/ \E p \in Procs : TrOpen(p)
    \/ \E p \in Procs : TrWrite(p)
    \/ \E p \in Procs : TrChmod(p)
    \/ \E p \in Procs : TrRun(p)
    \/ ShellActivate
    \/ ShellCommand
    \/ ShellExit
    \/ \E p \in Procs : TrWait(p)
    \/ \E p \in Procs : TrFinally(p)
    \/ \E p \in Procs : Uncaught(p)
    \/ \E p \in Procs : PipUpgrade(p)
    \/ \E p \in Procs : PipRequirements(p)
    \/ \E p \in Procs : PipSetup(p)
    \/ \E p \in Procs : RmData(p)
    \/ \E p \in Procs : CheckoutData(p)
    \/ \E p \in Procs : Tests(p)

Spec == Init /\ [][Next]_vars

\* every external command returns and every process takes its next step
FairSpec == Spec /\ WF_vars(Next)

\* ------------------------------------------------------ run(): the streams

\* logging.basicConfig(level=...) as install_script_main calls it
EffectiveLevel(verbose) == IF verbose THEN "DEBUG" ELSE "INFO"

\* what a caller may pass for a stream: nothing, None (inherit), or a pipe
\* or null device of subprocess
StreamArgs == {"unset", "None", "PIPE", "DEVNULL"}

run_kwargs_falsy(verbose, plat, kw) ==
    LET normal_pipe_or_not == IF EffectiveLevel(verbose) = "DEBUG" THEN "None" ELSE "PIPE"
    IN  [ shell  |-> plat = "nt",
          stdout |-> IF kw.stdout \in {"unset", "None"} THEN normal_pipe_or_not ELSE kw.stdout,
          stderr |-> IF kw.stderr \in {"unset", "None"} THEN normal_pipe_or_not ELSE kw.stderr,
          check  |-> TRUE ]

\* the keyword arguments run() hands to subprocess.run
run_kwargs(verbose, plat, kw) ==
    LET normal_pipe_or_not == IF EffectiveLevel(verbose) = "DEBUG" THEN "None" ELSE "PIPE"
    IN  [ shell  |-> plat = "nt",
          stdout |-> IF kw.stdout = "unset" THEN normal_pipe_or_not ELSE kw.stdout,
          stderr |-> IF kw.stderr = "unset" THEN normal_pipe_or_not ELSE kw.stderr,
          check  |-> TRUE ]

\* ------------------------------------------- the pure functions on their own

\* sequences over S of length at most n
RECURSIVE SeqsUpTo(_, _)
SeqsUpTo(S, n) ==
    IF n = 0 THEN {<<>>}
    ELSE LET shorter == SeqsUpTo(S, n - 1)
         IN  shorter \cup { Append(q, x) : q \in { r \in shorter : Len(r) = n - 1 }, x \in S }

\* subsets of S of at most n elements
RECURSIVE SubsetsUpTo(_, _)
SubsetsUpTo(S, n) ==
    IF n = 0 THEN {{}}
    ELSE LET smaller == SubsetsUpTo(S, n - 1)
         IN  smaller \cup { t \cup {x} : t \in smaller, x \in S }

\* the pipeline at rest, while a function is applied to an input of its own
FnInit ==
    /\ platform = "posix"
    /\ activeEnv = "None"
    /\ pipListing = 1
    /\ disk = [repo |-> "absent", trampOrig |-> "absent", trampRepo |-> "absent",
               nested |-> "absent"]
    /\ disk0 = disk
    /\ proc = [p \in Procs |-> Idle]
    /\ shell = NoShell
    /\ issued = <<>>
    /\ logged = {}
    /\ \/ \E key \in {"active environment", "base environment"}, lines \in SeqsUpTo(Line, MaxLines) :
            fn = [kind |-> "parse", key |-> key, lines |-> lines, done |-> FALSE,
                  result |-> [ok |-> FALSE, value |-> "pending"]]
       \/ \E lines \in SubsetsUpTo(TagLines, MaxTags) :
            fn = [kind |-> "wheel", lines |-> lines, done |-> FALSE,
                  result |-> [ok |-> FALSE, index |-> 0, version |-> "pending", dir |-> "none"]]
       \/ \E plat \in {"posix", "nt"}, fault \in RmFaults, retryOk \in BOOLEAN :
            fn = [kind |-> "rmtree", plat |-> plat, fault |-> fault, retryOk |-> retryOk,
                  done |-> FALSE,
                  result |-> [removed |-> FALSE, tries |-> 0, chmod |-> FALSE]]
       \/ \E verbose \in BOOLEAN, plat \in {"posix", "nt"}, out \in StreamArgs, err \in StreamArgs :
            fn = [kind |-> "run", verbose |-> verbose, plat |-> plat,
                  kw |-> [stdout |-> out, stderr |-> err], done |-> FALSE,
                  result |-> [shell |-> FALSE, stdout |-> "pending", stderr |-> "pending",
                              check |-> FALSE]]

\* parse_conda_info applied to the output of conda info
ApplyParse ==
    /\ fn.kind = "parse"
    /\ ~fn.done
    /\ fn' = [fn EXCEPT !.done = TRUE, !.result = parse_conda_info(fn.key, fn.lines)]
    /\ UNCHANGED <<platform, activeEnv, pipListing, disk, disk0, proc, shell, issued, logged>>

\* fetch_version_and_links applied to a compatible-tags listing
ApplyFetch ==
    /\ fn.kind = "wheel"
    /\ ~fn.done
    /\ fn' = [fn EXCEPT !.done = TRUE, !.result = fetch_version_and_links(fn.lines)]
    /\ UNCHANGED <<platform, activeEnv, pipListing, disk, disk0, proc, shell, issued, logged>>

\* run() called with keyword arguments of the caller
ApplyRun ==
    /\ fn.kind = "run"
    /\ ~fn.done
    /\ fn' = [fn EXCEPT !.done = TRUE, !.result = run_kwargs(fn.verbose, fn.plat, fn.kw)]
    /\ UNCHANGED <<platform, activeEnv, pipListing, disk, disk0, proc, shell, issued, logged>>

\* rmtree_git_repo applied to a directory with at most one entry whose
\* deletion is refused
ApplyRmtree ==
    /\ fn.kind = "rmtree"
    /\ ~fn.done
    /\ fn' = [fn EXCEPT !.done = TRUE,
                        !.result = rmtree_git_repo(fn.plat, fn.fault, fn.retryOk)]
    /\ UNCHANGED <<platform, activeEnv, pipListing, disk, disk0, proc, shell, issued, logged>>

FnNext == ApplyParse \/ ApplyFetch \/ ApplyRun \/ ApplyRmtree

FnSpec == FnInit /\ [][FnNext]_vars

\* ------------------------------------------------------ reading the history

Events(p, cmd) == { i \in 1..Len(issued) : issued[i].p = p /\ issued[i].cmd = cmd }
Ran(p, cmd) == Events(p, cmd) # {}
Succeeded(p, cmd) == \E i \in Events(p, cmd) : issued[i].rc = 0
Failed(p, cmd) == \E i \in Events(p, cmd) : issued[i].rc # 0

\* every run of the first command comes before every run of the second
Precedes(p, cmd, q, cmd2) == \A i \in Events(p, cmd), j \in Events(q, cmd2) : i < j

TopDone == proc["top"].pc = "done"

\* the top-level process was started without the internal flag
Pipeline == proc["top"].args.environment = PREPARE

Started(p) == proc[p].pc # "idle"

\* a removal of a checkout directory that the file system refused
RemovalRefused == \E i \in 1..Len(issued) : issued[i].cmd = "rmtree" /\ issued[i].rc # 0

\* tags of the artifacts the processes of this run make
MadeHere == {PREPARE, EXECUTE_BUILD, VALIDATE, "empty"}

\* ------------------------------------------------------------------ C1

\* C1: when the build trampoline exits non-zero the driver only unwinds: it
\* ends with a non-zero status, no validate trampoline is written or run and
\* no validate process exists, and (without --no-cleanup, the removal itself
\* not being refused by the file system) the checkout directory is gone when
\* the driver has ended.
C1_BuildFailureAborts ==
    (Pipeline /\ Failed("top", "trampoline_build")) =>
        /\ proc["top"].pc \in {"unwind", "done"}
        /\ ~Started("validate")
        /\ ~Ran("top", "trampoline_validate")
        /\ proc["top"].target = EXECUTE_BUILD
        /\ disk.trampOrig = disk0.trampOrig
        /\ TopDone => proc["top"].status >= 1
        /\ (TopDone /\ Cleanup("top") /\ ~RemovalRefused) =>
               (disk.repo = "absent" /\ disk.trampRepo = "absent")

\* the build command failed in the build child, the driver has ended and the
\* checkout of the prepare stage is gone
C1_Witness ==
    /\ Pipeline /\ TopDone /\ Cleanup("top")
    /\ Failed("build", "pip_setup")
    /\ Failed("top", "trampoline_build")
    /\ Succeeded("top", "rmtree")
    /\ disk.repo = "absent"

\* ------------------------------------------------------------------ C2

\* C2: in a pipeline run without --no-cleanup, once the top-level process has
\* ended (no removal having been refused by the file system), no checkout
\* directory and no trampoline script made by the run is on disk.
C2_NothingLeftAfterExit ==
    (Pipeline /\ TopDone /\ Cleanup("top") /\ ~RemovalRefused) =>
        /\ disk.repo \notin MadeHere
        /\ disk.nested \notin MadeHere
        /\ disk.trampOrig \notin MadeHere
        /\ disk.trampRepo \notin MadeHere

\* ------------------------------------------------------------------ C3

\* C3: with no conda environment active the prepare stage ends in failure
\* having issued nothing but the conda info query: the disk is as it was, no
\* environment name is accepted, no trampoline is written, no child started.
C3_NoEnvironmentNoMutation ==
    (Pipeline /\ activeEnv = "None") =>
        /\ disk = disk0
        /\ Len(issued) <= 1
        /\ \A i \in 1..Len(issued) : issued[i] \in {Cmd("top", "conda_info", rc) : rc \in Rc}
        /\ proc["top"].env_name = "unset"
        /\ proc["top"].scopes = <<>>
        /\ ~Started("build") /\ ~Started("validate")
        /\ shell = NoShell
        /\ TopDone => proc["top"].status = 1

\* the driver has refused to run outside an environment and has ended
C3_Witness ==
    /\ Pipeline /\ activeEnv = "None" /\ TopDone
    /\ Succeeded("top", "conda_info")
    /\ "fatal_no_environment" \in logged

\* ------------------------------------------------------------------ C4

\* no step of any process failed: no exception was raised and every command
\* and file operation returned success
NoFailure ==
    /\ \A p \in Procs : ~proc[p].exc
    /\ \A i \in 1..Len(issued) : issued[i].rc = 0

\* C4: every run ends, and a pipeline run in which nothing failed ends with
\* status 0 after the prepare steps, the build child and the validate child
\* ran to success in this order, the success message logged.
C4_SuccessfulRunEndsWithZero ==
    /\ <>TopDone
    /\ [](( TopDone /\ Pipeline /\ NoFailure) =>
            /\ proc["top"].status = 0
            /\ "success" \in logged
            /\ Succeeded("top", "git_checkout")
            /\ Succeeded("top", "conda_install_boost")
            /\ proc["build"].pc = "done" /\ proc["build"].status = 0
            /\ Succeeded("build", "pip_setup")
            /\ proc["validate"].pc = "done" /\ proc["validate"].status = 0
            /\ Succeeded("validate", "tests")
            /\ Precedes("top", "conda_install_boost", "build", "pip_setup")
            /\ Precedes("build", "pip_setup", "validate", "tests"))

\* a pipeline run in which nothing failed has ended
C4_Witness ==
    /\ Pipeline /\ TopDone /\ NoFailure
    /\ proc["top"].status = 0
    /\ Ran("validate", "tests")

\* ------------------------------------------------------------------ C5

\* the windowing library was resolved: installed, or found installed
PyopenglResolved ==
    IF platform = "nt"
    THEN \/ "warn_pyopengl_installed" \in logged
         \/ Succeeded("top", "pip_install_gl_wheel") /\ Succeeded("top", "pip_install_accel_wheel")
    ELSE Succeeded("top", "pip_install_pyopengl")

PrepareCmds ==
    {"git_clone", "git_checkout", "conda_install_compiler", "conda_install_boost",
     "pip_debug", "pip_install_pyopengl", "pip_install_gl_wheel", "pip_install_accel_wheel"}

\* a prepare step of the top-level process failed
PrepareFailed ==
    \E i \in 1..Len(issued) :
        issued[i].p = "top" /\ issued[i].cmd \in PrepareCmds /\ issued[i].rc # 0

\* the stage of each command issued, in the order issued: 1 for a prepare
\* step of the top-level process, 2 for the build child, 3 for the validate
\* child
StageOrder ==
    LET staged == SelectSeq(issued, LAMBDA e :
                      \/ e.p \in {"build", "validate"}
                      \/ e.p = "top" /\ e.cmd \in PrepareCmds)
    IN  [i \in 1..Len(staged) |->
            IF staged[i].p = "top" THEN 1 ELSE IF staged[i].p = "build" THEN 2 ELSE 3]

\* C5: in a pipeline run the environment is detected first, the build child
\* is started only when detection, clone, checkout and every dependency
\* install succeeded, and the validate child only when the build child ended
\* with success; the commands of the prepare steps, of the build child and of
\* the validate child are issued in this order; after a failed prepare step
\* no child is ever started, after a failed build no validate child.
C5_StagesInOrder ==
    Pipeline =>
        /\ issued # <<>> => issued[1].p = "top" /\ issued[1].cmd = "conda_info"
        /\ Started("build") =>
               /\ proc["top"].env_name # "unset"
               /\ \A c \in {"git_clone", "git_checkout", "conda_install_compiler",
                            "conda_install_boost"} : Succeeded("top", c)
               /\ PyopenglResolved
               /\ ~PrepareFailed
        /\ Started("validate") =>
               /\ proc["build"].pc = "done" /\ proc["build"].status = 0
               /\ Succeeded("top", "trampoline_build")
        /\ LET order == StageOrder
           IN  \A i \in 1..(Len(order) - 1) : order[i] <= order[i + 1]
        /\ PrepareFailed => ~Started("build") /\ ~Started("validate")
        /\ (proc["build"].pc = "done" /\ proc["build"].status # 0) => ~Started("validate")

\* the validate child runs after a build child that succeeded
C5_Witness ==
    /\ Pipeline
    /\ proc["validate"].pc = "tests"
    /\ proc["build"].status = 0

\* ------------------------------------------------------------------ C6

AtMostOneScript(d) == ~(d.trampOrig # "absent" /\ d.trampRepo # "absent")
AtMostOneCheckout(d) == ~(d.repo # "absent" /\ d.nested # "absent")

\* a process takes the step that issues git clone
IssuesClone(p) == proc[p].pc = "git_clone" /\ proc'[p].pc # "git_clone"

\* C6 as stated: no step, with or without --no-cleanup, takes a disk with at
\* most one checkout directory and at most one trampoline script to a disk
\* with two of either, and the clone is issued with no directory in its place.
C6_AtMostOneOfEach ==
    [][ /\ (AtMostOneScript(disk) /\ AtMostOneCheckout(disk)) =>
               (AtMostOneScript(disk') /\ AtMostOneCheckout(disk'))
        /\ \A p \in Procs : IssuesClone(p) => RepoAt(disk, proc[p].cwd) = "absent" ]_vars

\* C6 amended: there is never a second checkout directory and the clone is
\* issued only when no directory is in its place; a trampoline script is
\* written in the working directory over any script of its name there, so the
\* script a process runs is the one it wrote; two scripts, one inside the
\* checkout directory and one in the original directory, exist at once only
\* with --no-cleanup or with a script left over in the original directory.
C6_OneCheckoutScriptsPerDirectory ==
    /\ [](disk.nested = "absent")
    /\ [][\A p \in Procs : IssuesClone(p) => RepoAt(disk, proc[p].cwd) = "absent"]_vars
    /\ [](\A p \in Procs : proc[p].pc \in {"tr_chmod", "tr_run", "tr_wait"} =>
              TrampAt(disk, proc[p].cwd) = proc[p].target)
    /\ []((Cleanup("top") /\ disk0.trampOrig = "absent") => AtMostOneScript(disk))

\* with --no-cleanup the validate script has been written in the original
\* directory while the build script lies in the checkout that replaced a
\* stale one
C6_Witness ==
    /\ disk0.repo = "stale"
    /\ ~Cleanup("top")
    /\ disk.repo = PREPARE
    /\ disk.trampRepo = EXECUTE_BUILD
    /\ disk.trampOrig = VALIDATE

\* ------------------------------------------------------------------ C7

\* the checkout scope has just been entered by process p
ScopeEntered(p) == proc[p].pc \in {"install_compiler", "rm_data"}

\* C7: whatever was on disk before, a process that has entered the checkout
\* scope stands in a checkout directory that it cloned itself and that holds
\* nothing of an earlier one, the rest of the disk untouched; and the clone
\* command is issued only once the stale directory is gone.
C7_StaleCheckoutAsClean ==
    /\ [](\A p \in Procs : ScopeEntered(p) =>
              /\ proc[p].cwd = "repo"
              /\ disk.repo = proc[p].args.environment
              /\ disk.trampRepo = "absent"
              /\ disk.nested = "absent"
              /\ p = "top" => disk.trampOrig = disk0.trampOrig)
    /\ [][\A p \in Procs : IssuesClone(p) =>
              /\ disk.repo = "absent"
              /\ (p = "top" /\ disk0.repo = "stale") => Succeeded(p, "rmtree")]_vars

\* the checkout scope entered where a stale checkout with a stale script in
\* it had been left
C7_Witness ==
    /\ disk0.repo = "stale" /\ disk0.trampRepo = "stale"
    /\ proc["top"].pc = "install_compiler"
    /\ disk.repo = PREPARE

\* ------------------------------------------------------------------ C8

\* positions of the lines of the parsed output that carry the label and
\* its separator, counted without the extraction
MatchingAt == { i \in 1..Len(fn.lines) : fn.lines[i].label = fn.key /\ fn.lines[i].sep }

ParseDone == fn.kind = "parse" /\ fn.done

\* C8: the extraction of a labelled line succeeds exactly when one line of
\* the output matches, and then returns the value of that line; with no
\* matching line or with several it fails and returns no value, so it never
\* returns the first of several matches.
C8_SingleMatchOnly ==
    ParseDone =>
        /\ fn.result.ok <=> Cardinality(MatchingAt) = 1
        /\ fn.result.ok => \A i \in MatchingAt : fn.result.value = fn.lines[i].value
        /\ ~fn.result.ok => fn.result.value \notin Values

\* the extraction has failed on an output with two matching lines of
\* different values
C8_Witness ==
    /\ ParseDone
    /\ ~fn.result.ok
    /\ \E i, j \in MatchingAt : i < j /\ fn.lines[i].value # fn.lines[j].value

\* ------------------------------------------------------------------ C9

\* C9: in an environment whose listing shows the client-version line twice
\* the client upgrade command is never run.
C9_DuplicateVersionLineNoUpgrade ==
    pipListing = 2 => \A p \in Procs : ~Ran(p, "pip_upgrade")

\* ----------------------------------------------------------------- C10

\* the table entries whose tag triple, read off the file name, is a line of
\* the listing given
MatchingEntries ==
    { i \in 1..Len(pyopengl_versions) :
        LET f == pyopengl_versions[i][1]
        IN  TagLine(f[5], f[7], f[9]) \in fn.lines }

FetchDone == fn.kind = "wheel" /\ fn.done

\* C10: the resolver fails exactly when no table entry matches the supported
\* set, and otherwise selects the matching entry of lowest index, its version
\* and download directory those of that entry: no later match is preferred.
C10_FirstMatchByTableOrder ==
    FetchDone =>
        /\ fn.result.ok <=> MatchingEntries # {}
        /\ fn.result.ok =>
               /\ fn.result.index \in MatchingEntries
               /\ \A j \in MatchingEntries : fn.result.index <= j
               /\ fn.result.version = pyopengl_versions[fn.result.index][1][3]
        /\ ~fn.result.ok => fn.result.index = 0

\* the resolver has selected an entry where a later entry matches as well
C10_Witness ==
    /\ FetchDone
    /\ fn.result.ok
    /\ \E j \in MatchingEntries : j > fn.result.index

\* ----------------------------------------------------------------- C11

Done(p) == proc[p].pc = "done"

\* C11 as stated: a process that has ended after one of its commands failed
\* has the exit status of the last of them, and status 0 when none failed
\* and no exception escaped.
C11_StatusOfLastFailedCommand ==
    \A p \in Procs : Done(p) =>
        LET failed == FailedRuns(p)
        IN  /\ failed # {} => proc[p].status = issued[MaxOf(failed)].rc
            /\ (failed = {} /\ ~proc[p].exc) => proc[p].status = 0

\* C11 amended: a process ends with status 1 when one of its commands exited
\* non-zero, whatever the status of that command, or when any other exception
\* escaped, and with status 0 otherwise; a trampoline script returns 0 or 1.
C11_StatusZeroOrOne ==
    /\ \A p \in Procs : Done(p) =>
           /\ proc[p].status \in {0, 1}
           /\ proc[p].status = 1 <=> proc[p].exc
           /\ FailedRuns(p) # {} => proc[p].status = 1
    /\ \A i \in 1..Len(issued) :
           issued[i].cmd \in {"trampoline_build", "trampoline_validate"} => issued[i].rc \in {0, 1}

\* the top-level process has ended with status 1 after a command of its own
\* exited with a status above 1
C11_Witness ==
    /\ Done("top")
    /\ proc["top"].status = 1
    /\ \E i \in FailedRuns("top") : issued[i].rc > 1

\* ----------------------------------------------------------------- C12

\* process p takes the step that leaves its innermost scope
ScopeExit(p) == Len(proc'[p].scopes) < Len(proc[p].scopes)

\* C12: with --no-cleanup the step that leaves a scope, after success or
\* after a failure, changes nothing on disk and issues no removal: the
\* checkout directory a checkout scope made and the script a trampoline scope
\* wrote are on disk when the scope has been left.
C12_NoCleanupKeepsArtifacts ==
    [][\A p \in Procs : (ScopeExit(p) /\ ~Cleanup(p)) =>
          /\ disk' = disk
          /\ issued' = issued
          /\ Last(proc[p].scopes) = "repo" =>
                 RepoAt(disk', proc'[p].cwd) = proc[p].args.environment
          /\ (Last(proc[p].scopes) = "tramp" /\ Ran(p, TrampolineOf(proc[p].target))) =>
                 TrampAt(disk', proc'[p].cwd) = proc[p].target]_vars

\* with --no-cleanup the top-level process has ended after a failed build,
\* the checkout directory and the build script in it still on disk
C12_Witness ==
    /\ Pipeline /\ ~Cleanup("top") /\ Done("top")
    /\ Failed("top", "trampoline_build")
    /\ disk.repo = PREPARE
    /\ disk.trampRepo = EXECUTE_BUILD

\* ----------------------------------------------------------------- C13

\* the three user flags of a parsed command line
Flags(a) == <<a.no_cleanup, a.verbose, a.yes>>

\* process p has parsed its command line
Parsed(p) == proc[p].pc \notin {"idle", "start"}

\* C13: a re-executed child that has parsed its command line holds the same
\* values of --no-cleanup, --verbose and --yes as the top-level process was
\* given, and its stage marker is the stage of its trampoline: the one the
\* driver is waiting for while the child runs.
C13_ChildParsesParentFlags ==
    \A c \in {"build", "validate"} : Parsed(c) =>
        /\ Flags(proc[c].args) = Flags(parse_args(proc["top"].argv))
        /\ Flags(proc[c].args) = Flags(proc["top"].args)
        /\ proc[c].args.environment = (IF c = "build" THEN EXECUTE_BUILD ELSE VALIDATE)
        /\ ~Done(c) => /\ proc["top"].pc = "tr_wait"
                       /\ proc[c].args.environment = proc["top"].target

\* the validate child runs with --no-cleanup and --yes set and --verbose unset
C13_Witness ==
    /\ proc["validate"].pc = "tests"
    /\ proc["top"].argv = <<"--no-cleanup", "--yes">>
    /\ Flags(proc["validate"].args) = <<TRUE, FALSE, TRUE>>

\* ----------------------------------------------------------------- C14

\* the steps of the build stage body and of the validate stage body
StageBodyPcs ==
    {"pip_upgrade", "pip_requirements", "pip_setup", "rm_data", "checkout_data", "tests"}

\* C14: the process a user started parses the stage PREPARE and is never at
\* a step of the build or validate stage body; those bodies run only in the
\* children a trampoline started, each in the body of its own stage.
C14_StageBodiesOnlyInChildren ==
    /\ Parsed("top") => proc["top"].args.environment = PREPARE
    /\ proc["top"].pc \notin StageBodyPcs
    /\ \A c \in {"build", "validate"} : Started(c) =>
           /\ shell.parent = "top" \/ Done(c)
           /\ Ran("top", "conda_info")

\* ----------------------------------------------------------------- C15

\* a command of process p has exited non-zero
HasFailed(p) == FailedRuns(p) # {}

\* what the history may hold after a failed command of process p: removals
\* by the scope releases of p and, from the process that waits for p, the
\* return of the trampoline it was running and its own removals
AfterFailure(p, e) ==
    \/ e.cmd = "rmtree" /\ e.p \in {p, "top"}
    \/ e.p = "top" /\ p # "top" /\ e.cmd = TrampolineOf(proc[p].args.environment)

\* C15: once a command of a process has exited non-zero the process only
\* unwinds and ends with a failure: it issues no further command, neither the
\* failed one again nor a later one, and the driver waiting for a failed
\* child starts no further command either and ends with a failure too.
C15_NoRetryAfterFailure ==
    /\ [](\A p \in Procs : HasFailed(p) =>
              /\ Cardinality(FailedRuns(p)) = 1
              /\ proc[p].pc \in {"unwind", "done"}
              /\ proc[p].exc
              /\ Done(p) => proc[p].status = 1
              /\ \A i \in FailedRuns(p) : \A j \in (i + 1)..Len(issued) :
                     AfterFailure(p, issued[j])
              /\ Done("top") => (Done(p) /\ proc["top"].status = 1))
    /\ (\E p \in Procs : HasFailed(p)) ~> Done("top")

\* the build child has failed at its second command, and the driver has
\* ended with a failure after it
C15_Witness ==
    /\ Failed("build", "pip_requirements")
    /\ Done("build") /\ Done("top")
    /\ proc["top"].status = 1
    /\ Succeeded("top", "rmtree")

\* ----------------------------------------------------------------- C16

RunDone == fn.kind = "run" /\ fn.done

\* C16: a stream the caller does not name is captured at normal verbosity
\* and inherited with --verbose; a stream the caller names, an explicit
\* inherit included, is handed on as named at both verbosity levels.
C16_StreamsCapturedUnlessVerboseOrNamed ==
    RunDone =>
        /\ fn.kw.stdout = "unset" => fn.result.stdout = (IF fn.verbose THEN "None" ELSE "PIPE")
        /\ fn.kw.stderr = "unset" => fn.result.stderr = (IF fn.verbose THEN "None" ELSE "PIPE")
        /\ fn.kw.stdout # "unset" => fn.result.stdout = fn.kw.stdout
        /\ fn.kw.stderr # "unset" => fn.result.stderr = fn.kw.stderr

\* the trampoline call at normal verbosity: both streams named as inherited,
\* and inherited
C16_Witness ==
    /\ RunDone
    /\ ~fn.verbose
    /\ fn.kw = [stdout |-> "None", stderr |-> "None"]
    /\ fn.result.stdout = "None" /\ fn.result.stderr = "None"

\* ----------------------------------------------------------------- C17

\* the driver is inside run_with_reactivated_environment for the given stage
InTrampoline(stage) ==
    /\ proc["top"].target = stage
    /\ proc["top"].pc \in {"tr_open", "tr_write", "tr_chmod", "tr_run", "tr_wait", "tr_finally"}

\* (a trampoline script has been started once the history holds its
\* activation line)
\* C17: from the writing of the build trampoline to its return the driver
\* holds the prepare scope and stands in the prepare checkout directory, which
\* is on disk; the build child runs in that directory; the scope is released
\* and the directory removed only after the build trampoline has returned.
C17_BuildInsidePrepareScope ==
    /\ [](InTrampoline(EXECUTE_BUILD) =>
              /\ Len(proc["top"].scopes) >= 1 /\ proc["top"].scopes[1] = "repo"
              /\ proc["top"].cwd = "repo"
              /\ disk.repo = PREPARE)
    /\ []((Started("build") /\ ~Done("build")) =>
              /\ proc["top"].pc = "tr_wait" /\ proc["top"].target = EXECUTE_BUILD
              /\ proc["build"].cwd = "repo"
              /\ shell.cwd = "repo" /\ shell.stage = EXECUTE_BUILD)
    /\ [](Started("build") =>
              /\ proc["build"].cwd = "repo"
              /\ (disk.repo # PREPARE \/ proc["top"].cwd # "repo") =>
                     (Done("build") /\ Ran("top", "trampoline_build")))
    /\ [][(ScopeExit("top") /\ Last(proc["top"].scopes) = "repo" /\ Ran("shell", "activate"))
              => (Ran("top", "trampoline_build") /\ shell = NoShell)]_vars

\* the build child is at the build command inside the prepare checkout while
\* the driver waits for the trampoline
C17_Witness ==
    /\ proc["build"].pc = "pip_setup"
    /\ proc["build"].cwd = "repo"
    /\ proc["top"].pc = "tr_wait"
    /\ disk.repo = PREPARE

\* ----------------------------------------------------------------- C18

\* the driver is about to start the validate trampoline
LaunchingValidate ==
    /\ proc["top"].target = VALIDATE
    /\ proc["top"].pc \in {"tr_open", "tr_write", "tr_chmod", "tr_run"}

\* C18: the driver writes and starts the validate trampoline with the
\* prepare scope left: it stands in the original directory and, without
\* --no-cleanup, no checkout directory is on disk (with it, the one of the
\* prepare stage); the validate child then stands in a checkout directory it
\* cloned and checked out itself whenever it is at a step of its stage body.
C18_ValidateAfterPrepareScope ==
    /\ InTrampoline(VALIDATE) =>
           /\ \A i \in 1..Len(proc["top"].scopes) : proc["top"].scopes[i] # "repo"
           /\ proc["top"].cwd = "orig"
           /\ Succeeded("top", "trampoline_build")
           /\ Cleanup("top") => Succeeded("top", "rmtree")
    /\ LaunchingValidate =>
           disk.repo = (IF Cleanup("top") THEN "absent" ELSE PREPARE)
    /\ Started("validate") =>
           /\ InTrampoline(VALIDATE) \/ Done("validate")
           /\ ~Cleanup("top") => (Parsed("validate") => ~Cleanup("validate"))
    /\ proc["validate"].pc \in {"rm_data", "checkout_data", "tests"} =>
           /\ disk.repo = VALIDATE
           /\ disk.trampRepo = "absent"
           /\ proc["validate"].cwd = "repo"
           /\ Succeeded("validate", "git_clone") /\ Succeeded("validate", "git_checkout")
           /\ Cleanup("top") \/ Succeeded("validate", "rmtree")
    /\ Ran("validate", "tests") =>
           /\ Precedes("validate", "git_checkout", "validate", "tests")
           /\ Precedes("top", "rmtree", "validate", "git_clone") \/ ~Ran("top", "rmtree")

\* the validate child is at the test command in its own checkout, the
\* checkout of the prepare stage having been removed by the driver
C18_Witness ==
    /\ proc["validate"].pc = "tests"
    /\ disk.repo = VALIDATE
    /\ Cleanup("top")
    /\ Succeeded("top", "rmtree")
    /\ proc["top"].cwd = "orig"

\* ----------------------------------------------------------------- C19

\* the working directory process p was started in
StartCwd(p) == IF p = "build" THEN "repo" ELSE "orig"

\* process p is inside inside_git_repository between the chdir into the
\* checkout directory and the end of the finally block
InCheckout(p) ==
    \/ proc[p].pc = "git_checkout"
    \/ \E i \in 1..Len(proc[p].scopes) : proc[p].scopes[i] = "repo"

\* C19: a process that is not inside the checkout scope, whether it never
\* entered it or left it normally, after a failure of its body or after a
\* failure of the revision checkout, stands in the directory it started in.
C19_CwdRestoredOnEveryExit ==
    \A p \in Procs : (Started(p) /\ ~InCheckout(p)) => proc[p].cwd = StartCwd(p)

\* ----------------------------------------------------------------- C20

\* the scopes a process can hold, in the order it acquired them
ScopeStacks == { <<>>, <<"repo">>, <<"repo", "tramp">>, <<"tramp">> }

\* C20: scopes are held in the order acquired and left innermost first, and
\* a process ends holding none: the step that leaves the trampoline scope
\* deletes the script (unless --no-cleanup) and touches neither the working
\* directory nor the checkout directory; the step that leaves the checkout
\* scope is taken with no trampoline scope held and the script already
\* deleted, and only it restores the working directory and removes the
\* checkout directory.
C20_ReleaseInReverseOrder ==
    /\ [](\A p \in Procs : /\ proc[p].scopes \in ScopeStacks
                           /\ Done(p) => proc[p].scopes = <<>>)
    /\ [][\A p \in Procs : ScopeExit(p) =>
             /\ proc'[p].scopes = Front(proc[p].scopes)
             /\ Last(proc[p].scopes) = "tramp" =>
                    /\ proc'[p].cwd = proc[p].cwd
                    /\ RepoAt(disk', "orig") = RepoAt(disk, "orig")
                    /\ issued' = issued
                    /\ Cleanup(p) => TrampAt(disk', proc[p].cwd) = "absent"
             /\ Last(proc[p].scopes) = "repo" =>
                    /\ proc[p].scopes = <<"repo">>
                    /\ proc[p].cwd = "repo" /\ proc'[p].cwd = "orig"
                    /\ Cleanup(p) => disk.trampRepo = "absent"]_vars
    /\ [][\A p \in Procs : (proc'[p].cwd # proc[p].cwd /\ proc[p].pc # "git_clone"
                            /\ Started(p))
             => (ScopeExit(p) /\ proc[p].scopes = <<"repo">>)]_vars

\* the driver unwinds after a failed build: the build script is deleted, the
\* trampoline scope left, the checkout directory still there and still the
\* working directory
C20_Witness ==
    /\ Pipeline /\ Cleanup("top")
    /\ Failed("top", "trampoline_build")
    /\ proc["top"].pc = "unwind"
    /\ proc["top"].scopes = <<"repo">>
    /\ proc["top"].cwd = "repo"
    /\ disk.repo = PREPARE
    /\ disk.trampRepo = "absent"

\* ----------------------------------------------------------------- C21

\* process p has a step to take: it has started, has not ended and is not
\* blocked in run() on a trampoline script that has not ended
Running(p) ==
    /\ proc[p].pc \notin {"idle", "done"}
    /\ ~(proc[p].pc = "tr_wait" /\ shell.pc # "done")

\* the shell has a line of the script to run, or the command it was blocked
\* on has ended
ShellRunning ==
    \/ shell.pc \in {"activate", "command"}
    \/ shell.pc = "wait" /\ Done(ChildOf(shell.stage))

\* C21: at most one of the driver, the shell and the children has a step to
\* take at any time; while a child has started and not ended the driver is
\* blocked in run() and the other child is not running; the validate child
\* is started only when the build child has ended; every command and removal
\* is issued by the one that is running.
C21_OneActorAtATime ==
    /\ [](Cardinality({p \in Procs : Running(p)}) + (IF ShellRunning THEN 1 ELSE 0) <= 1)
    /\ [](\A c \in {"build", "validate"} : (Started(c) /\ ~Done(c)) =>
              /\ proc["top"].pc = "tr_wait" /\ shell.pc = "wait"
              /\ \A d \in {"build", "validate"} \ {c} : ~Running(d))
    /\ [](Started("validate") => Done("build"))
    /\ [][issued' # issued =>
             (IF Last(issued').p = "shell" THEN ShellRunning ELSE Running(Last(issued').p))]_vars
    /\ [][disk' # disk => \E p \in Procs : Running(p) /\ proc'[p] # proc[p]]_vars

\* the validate child is at the test command: the driver and the shell are
\* blocked and the build child has ended
C21_Witness ==
    /\ proc["validate"].pc = "tests"
    /\ Done("build")
    /\ proc["top"].pc = "tr_wait"
    /\ shell.pc = "wait"
    /\ ~Running("top")

\* ----------------------------------------------------------------- C22

RmtreeDone == fn.kind = "rmtree" /\ fn.done

\* C22: a deletion refused with permission error 13 on Windows is tried a
\* second time, once, after the read-only attribute was cleared, and the
\* removal succeeds exactly when that second try does; any other refusal, and
\* the same one on another platform, ends the removal at the first try with
\* the attribute untouched and the directory left.
C22_ReadonlyRetriedOnceOnWindows ==
    RmtreeDone =>
        /\ fn.fault = "none" =>
               (fn.result.removed /\ fn.result.tries = 1 /\ ~fn.result.chmod)
        /\ (fn.fault = "readonly" /\ fn.plat = "nt") =>
               (fn.result.chmod /\ fn.result.tries = 2 /\ fn.result.removed = fn.retryOk)
        /\ (fn.fault = "other" \/ (fn.fault = "readonly" /\ fn.plat # "nt")) =>
               (~fn.result.removed /\ fn.result.tries = 1 /\ ~fn.result.chmod)

\* a read-only refusal on a platform other than Windows has ended the
\* removal, though a second try would have gone through
C22_Witness ==
    /\ RmtreeDone
    /\ fn.plat = "posix" /\ fn.fault = "readonly" /\ fn.retryOk
    /\ ~fn.result.removed /\ fn.result.tries = 1

\* ----------------------------------------------------------------- C23

\* C23: the success message is logged only after a test command that exited
\* 0; a validate child that ended without its test command having exited 0
\* (that command or an earlier step of the stage failed) ended in failure,
\* logged no success message and left its checkout scope released (the
\* directory removed unless --no-cleanup or a refused removal, the working
\* directory restored), and the driver then ends in failure too.
C23_SuccessOnlyAfterTestsPass ==
    /\ "success" \in logged => \E p \in Procs : Succeeded(p, "tests")
    /\ (Pipeline /\ Done("validate") /\ ~Succeeded("validate", "tests")) =>
           /\ "success" \notin logged
           /\ proc["validate"].status # 0
           /\ proc["validate"].cwd = "orig"
           /\ (Cleanup("validate") /\ ~RemovalRefused) => disk.repo # VALIDATE
           /\ Done("top") => proc["top"].status # 0

\* ----------------------------------------------------------------- C24

\* C24: on Windows, when PyOpenGL is found installed, install_pyopengl only
\* warns: that step issues no command, touches no file and returns to the
\* prepare stage, which goes on to the build trampoline; the compatible tags
\* are never queried, the wheel table is never scanned and no install command
\* of the resolver is ever issued.
WheelLookupCmds == {"pip_debug", "pip_install_gl_wheel", "pip_install_accel_wheel",
                    "pip_install_pyopengl"}

WheelLookupPcs == {"gl_fetch", "gl_install", "gl_accel"}

AlreadyInstalled == "warn_pyopengl_installed" \in logged

C24_InstalledOnlyWarns ==
    /\ [](AlreadyInstalled =>
            /\ platform = "nt"
            /\ \A i \in 1..Len(issued) : issued[i].cmd \notin WheelLookupCmds
            /\ "fatal_no_binary" \notin logged
            /\ \A p \in Procs : proc[p].pc \notin WheelLookupPcs)
    /\ [][\A p \in Procs :
            (proc[p].pc = "install_pyopengl" /\ AlreadyInstalled') =>
                /\ issued' = issued
                /\ disk' = disk
                /\ logged' = logged \cup {"warn_pyopengl_installed"}
                /\ proc'[p] = [proc[p] EXCEPT !.pc = "tr_open", !.target = EXECUTE_BUILD]
                /\ ~proc'[p].exc]_vars

C24_Witness ==
    /\ AlreadyInstalled
    /\ Succeeded("top", "conda_install_boost")
    /\ Started("build")

\* ----------------------------------------------------------------- C25

\* the scan of the wheel table met no entry with a supported tag triple
NoCompatibleBinary == "fatal_no_binary" \in logged

\* no trampoline script has been written in this run
NoScriptWritten ==
    /\ disk.trampOrig \notin MadeHere
    /\ disk.trampRepo \notin MadeHere
    /\ \A p \in Procs : \A i \in 1..Len(proc[p].scopes) : proc[p].scopes[i] # "tramp"

\* the prepare stage of the driver was aborted inside its checkout: the
\* exception unwinds, no script is written and no child is started, and the
\* driver ends in failure in its starting directory with the checkout
\* directory removed (unless --no-cleanup, or a removal that was refused)
PrepareAborted ==
    /\ proc["top"].pc \in {"unwind", "done"}
    /\ proc["top"].pc = "unwind" => proc["top"].exc
    /\ ~Started("build") /\ ~Started("validate")
    /\ shell = NoShell
    /\ NoScriptWritten
    /\ Done("top") =>
           /\ proc["top"].status = 1
           /\ proc["top"].cwd = "orig"
           /\ proc["top"].scopes = <<>>
           /\ IF ~Cleanup("top") THEN disk.repo = PREPARE
              ELSE ~RemovalRefused => disk.repo = "absent"

\* C25: on Windows, when no entry of the wheel table has a supported tag
\* triple, the resolver logs the no-compatible-binary failure and raises:
\* no install command of the resolver is issued, the prepare stage is
\* aborted with its checkout released, and no build or validate child starts.
C25_NoBinaryAbortsPrepare ==
    NoCompatibleBinary =>
        /\ platform = "nt"
        /\ \A i \in 1..Len(issued) :
               issued[i].cmd \notin {"pip_install_gl_wheel", "pip_install_accel_wheel",
                                     "pip_install_pyopengl"}
        /\ PrepareAborted

\* the run has ended after the failed scan, its checkout removed
C25_Witness ==
    /\ NoCompatibleBinary
    /\ Done("top")
    /\ Cleanup("top")
    /\ Succeeded("top", "rmtree")
    /\ disk.repo = "absent"

\* ----------------------------------------------------------------- C26

\* the commands of the dependency installs of psbody_prepare_environment
DependencyCmds ==
    {"conda_install_compiler", "conda_install_boost", "pip_debug",
     "pip_install_pyopengl", "pip_install_gl_wheel", "pip_install_accel_wheel"}

\* a dependency install of the driver failed: one of its commands exited
\* non-zero, or the wheel lookup raised
DependencyInstallFailed ==
    \/ NoCompatibleBinary
    \/ \E i \in 1..Len(issued) :
           issued[i].p = "top" /\ issued[i].cmd \in DependencyCmds /\ issued[i].rc # 0
    \/ \E i \in 1..Len(issued) :
           /\ issued[i].p = "top" /\ issued[i].cmd = "pip_debug" /\ issued[i].rc = 0
           /\ proc["top"].exc
           /\ \A j \in (i + 1)..Len(issued) : issued[j].cmd = "rmtree"

\* C26: when a dependency install of the prepare stage fails inside the
\* checkout (compiler, boost or PyOpenGL), the checkout had been acquired,
\* the failure unwinds through its scope, which restores the working
\* directory and removes the directory unless --no-cleanup; no trampoline
\* script is written and no build or validate child is started.
C26_FailedInstallReleasesCheckout ==
    (Pipeline /\ DependencyInstallFailed) =>
        /\ Succeeded("top", "git_clone") /\ Succeeded("top", "git_checkout")
        /\ PrepareAborted
        /\ \A i \in 1..Len(issued) : issued[i].p = "top"

\* the driver has ended after a failed boost install, its checkout removed
\* and its working directory restored
C26_Witness ==
    /\ Pipeline /\ Failed("top", "conda_install_boost")
    /\ Done("top")
    /\ Cleanup("top") /\ Succeeded("top", "rmtree")
    /\ disk.repo = "absent"
    /\ proc["top"].cwd = "orig"

\* ----------------------------------------------------------------- C27

\* the shell takes the step that runs the activation line, and it fails
ActivationFails ==
    /\ shell.pc = "activate"
    /\ issued' # issued
    /\ Last(issued').rc # 0

\* C27: on both platforms the script runs its activation line before its
\* command line, a child is started only by the command line of a script
\* whose activation line has run, and when the activation line fails the
\* script ends there with a non-zero status, its command never run.
C27_FailedActivationSkipsCommand ==
    /\ [][shell'.pc = "command" => shell.pc = "activate"]_vars
    /\ [][\A c \in {"build", "validate"} : (~Started(c) /\ Started(c)') =>
              /\ shell.pc = "command"
              /\ Last(issued) \in {Cmd("shell", "activate", rc) : rc \in 0..MaxActivateRc}]_vars
    /\ [][ActivationFails =>
              /\ shell'.pc = "done"
              /\ shell'.status # 0
              /\ proc' = proc]_vars

\* ----------------------------------------------------------------- C28

\* process p was started with a value of --environment that names no stage
UnknownMarker(p) ==
    /\ Started(p)
    /\ parse_args(proc[p].argv).environment \notin {PREPARE, EXECUTE_BUILD, VALIDATE}

\* C28: a process started with a stage marker that names no stage only
\* parses its arguments and ends with status 0: it detects no environment,
\* clones nothing, installs nothing, enters no scope, writes no script and
\* starts no shell or child; the disk is as it was.
C28_UnknownMarkerDoesNothing ==
    /\ [](\A p \in Procs : UnknownMarker(p) =>
              /\ proc[p].pc \in {"start", "done"}
              /\ Done(p) => proc[p].status = 0
              /\ ~proc[p].exc
              /\ proc[p].scopes = <<>>
              /\ proc[p].cwd = "orig"
              /\ proc[p].env_name = "unset"
              /\ \A i \in 1..Len(issued) : issued[i].p # p
              /\ p = "top" =>
                     /\ issued = <<>>
                     /\ logged = {}
                     /\ disk = disk0
                     /\ shell = NoShell
                     /\ ~Started("build") /\ ~Started("validate"))
    /\ UnknownMarker("top") ~> (Done("top") /\ proc["top"].status = 0)

\* the process the user started with an unknown marker has ended
C28_Witness ==
    /\ UnknownMarker("top")
    /\ Done("top")
    /\ proc["top"].status = 0

====
